---- MODULE Spec2Model ----
(***************************************************************************)
(* The avatar screen of react-three-fiber-example: AvatarScreen (the       *)
(* Screen Controller) and Avatar3D (the Scene Host), as they run on one    *)
(* JavaScript event loop.                                                  *)
(*                                                                         *)
(* One action is one task of the event loop: a React commit (render of the *)
(* screen's tree followed by the effects of that commit), a timer          *)
(* callback, a mount or an unmount.  Time is counted in milliseconds and   *)
(* advances in steps of the stagger delay; a timer callback runs at the    *)
(* instant its delay has elapsed, and a pending commit runs before time    *)
(* advances (the event loop is otherwise idle).                            *)
(*                                                                         *)
(* The results of the hooks useGLTF and useAnimations belong to the        *)
(* rendering library: the asset is an input of the model, absent or        *)
(* present, and present under an identity that the library may renew.      *)
(***************************************************************************)
EXTENDS Naturals, Integers, Sequences, FiniteSets

\* ---------------------------------------------------------------- bounds
NumScreens == 2        \* AvatarScreen instances a host may mount
NumClips == 3          \* animation clips of the asset
MaxGltfVersion == 2    \* identities under which useGLTF returns the asset
MaxElapsed == 1500     \* the elapsed-time counters saturate here (ms)

\* ------------------------------------------------------ program constants
BridgeDelay == 1000    \* setTimeout(..., 1000)
StaggerStep == 100     \* setTimeout(..., index * 100)

Screens == 1..NumScreens
Clips == 1..NumClips
NoAsset == 0

\* avatarError: string | undefined
Undefined == "undefined"
ErrorValues == {Undefined, "", "load failed", "timeout"}
\* JavaScript truthiness of a string | undefined
Truthy(e) == e # Undefined /\ e # ""

\* console.log / console.warn / console.error: 0 is the function in place
\* before any mount, i > 0 the filtering wrapper installed by screen i.
OrigFn == 0
OrigConsole == [log |-> OrigFn, warn |-> OrigFn, error |-> OrigFn]

VARIABLES
  life,           \* per screen: "unmounted" (not yet mounted), "mounted", "torn"
  isBridgeReady,  \* AvatarScreen state
  avatarLoaded,   \* AvatarScreen state
  avatarError,    \* AvatarScreen state
  needsRender,    \* per screen: a state update waits for its commit
  shown,          \* per screen: what the last commit put on the display
  age,            \* per screen: ms since mount (saturating)
  saved,          \* per screen: originalLog/Warn/Error captured by the effect
  console,        \* the process-wide console functions
  gltf,           \* what useGLTF returns: NoAsset or the asset's identity
  avatarMounted,  \* per screen: Avatar3D is in the tree
  isLoaded,       \* Avatar3D state
  lastDeps,       \* per screen: the effect dependencies of the last commit
  sinceLoaded,    \* per screen: ms since the loaded transition (saturating), -1 before
  timers,         \* the event loop's pending setTimeout callbacks, in insertion order
  bridgeCalls,    \* per screen: the runs of the bridge timer callback
  loadCalls,      \* per screen: the invocations of onLoadStateChange
  plays,          \* per screen: the calls of animation.play()
  playErrors      \* per screen: the calls of play() that threw and were logged

vars == <<life, isBridgeReady, avatarLoaded, avatarError, needsRender, shown,
          age, saved, console, gltf, avatarMounted, isLoaded, lastDeps,
          sinceLoaded, timers, bridgeCalls, loadCalls, plays, playErrors>>

\* ------------------------------------------------- AvatarScreen: the view
\* the status text with the bridge test before the error test
StatusTextBridgeFirst(b, l, e) ==
  IF ~b THEN "Initializing..."
  ELSE IF Truthy(e) THEN "Failed to load model"
  ELSE IF ~l THEN "Loading Model..."
  ELSE "Ready"

\* AvatarScreen.tsx 172-180: the status text, by nested conditionals
StatusText(b, l, e) ==
  IF Truthy(e) THEN "Failed to load model"
  ELSE IF ~b THEN "Initializing..."
  ELSE IF ~l THEN "Loading Model..."
  ELSE "Ready"

\* AvatarScreen.tsx 162-168: the indicator colour
StatusColour(b, l, e) ==
  IF Truthy(e) THEN "#f44336"
  ELSE IF ~b THEN "#888888"
  ELSE IF ~l THEN "#ff9800"
  ELSE "#4CAF50"

\* the canvas rendered whatever isBridgeReady is
CanvasAlways(b) == TRUE

\* AvatarScreen.tsx 185: {isBridgeReady ? <Canvas>...<Avatar3D/> : placeholder}
CanvasShown(b) == b

\* AvatarScreen.tsx 238: {!avatarLoaded && !avatarError && overlay}, inside the canvas branch
LoadingOverlay(b, l, e) == CanvasShown(b) /\ ~l /\ ~Truthy(e)

\* AvatarScreen.tsx 278: {avatarError && overlay}, inside the canvas branch
ErrorOverlay(b, e) == CanvasShown(b) /\ Truthy(e)

\* Avatar3D.tsx 74-98: null without a scene, the group otherwise
AvatarOutput(mounted, g) ==
  IF ~mounted THEN "absent" ELSE IF g = NoAsset THEN "null" ELSE "scene"

Blank == [text |-> "", colour |-> "", canvas |-> FALSE, loading |-> FALSE,
          error |-> FALSE, avatar |-> "absent"]

\* what one commit of AvatarScreen's tree displays
View(b, l, e, g) ==
  [text |-> StatusText(b, l, e), colour |-> StatusColour(b, l, e),
   canvas |-> CanvasShown(b), loading |-> LoadingOverlay(b, l, e),
   error |-> ErrorOverlay(b, e), avatar |-> AvatarOutput(CanvasShown(b), g)]

\* ------------------------------------------------------ Avatar3D: effects
NoDeps == [g |-> -1, l |-> FALSE]

\* Avatar3D.tsx 19-20, 40: Object.keys(actions.actions), the asset's clips in order
ClipNames(g) == IF g = NoAsset THEN <<>> ELSE [c \in Clips |-> c]

\* Avatar3D.tsx 45-46: the action exists and has a play function
Playable(g, c) == g # NoAsset /\ c \in Clips

\* the stagger computed with the bridge delay
StaggerDelayLong(index) == index * BridgeDelay

\* Avatar3D.tsx 54: the delay of the clip at 0-based position index
StaggerDelay(index) == index * StaggerStep

\* the notify effect without the !isLoaded test
NotifyCallsUnguarded(g, l) ==
  IF g # NoAsset THEN <<[isLoaded |-> TRUE, error |-> Undefined]>> ELSE <<>>

\* the notify effect reporting the value of its condition on every run
NotifyCallsCondition(g, l) ==
  <<[isLoaded |-> (g # NoAsset /\ ~l), error |-> Undefined]>>

\* the notify effect reporting an absent asset as an error
NotifyCallsError(g, l) ==
  IF g = NoAsset THEN <<[isLoaded |-> FALSE, error |-> "load failed"]>>
  ELSE IF ~l THEN <<[isLoaded |-> TRUE, error |-> Undefined]>> ELSE <<>>

\* Avatar3D.tsx 25-27: the notify effect's calls of onLoadStateChange, given the
\* asset and the isLoaded of the render the effect belongs to
NotifyCalls(g, l) ==
  IF g # NoAsset /\ ~l THEN <<[isLoaded |-> TRUE, error |-> Undefined]>> ELSE <<>>

\* Avatar3D.tsx 25-26: the notify effect's setIsLoaded(true)
NotifySetsLoaded(g, l) == g # NoAsset /\ ~l

\* Avatar3D.tsx 30: the notify effect runs on mount and when a dependency changed
NotifyRuns(fresh, prev, g, l) == fresh \/ prev.g # g \/ prev.l # l

\* Avatar3D.tsx 60: [isLoaded, actions]; useAnimations renews actions with the
\* asset's animations, and on every render while there are none (|| [])
StartRuns(fresh, prev, g, l) == fresh \/ prev.l # l \/ prev.g # g \/ g = NoAsset

\* Avatar3D.tsx 34-56: the timers the start-animations effect sets
StartTimers(i, g, l) ==
  IF ~l THEN <<>>
  ELSE LET names == ClipNames(g)
           all == [k \in 1..Len(names) |->
                     [kind |-> "clip", owner |-> i, clip |-> names[k],
                      left |-> StaggerDelay(k - 1)]]
       IN SelectSeq(all, LAMBDA t : Playable(g, t.clip))

\* -------------------------------------------------------------- the timers
BridgeTimer(i) == [kind |-> "bridge", owner |-> i, clip |-> 0, left |-> BridgeDelay]

Due == {k \in 1..Len(timers) : timers[k].left = 0}

\* the callback the event loop runs next: the first due timer in insertion order
FirstDue == CHOOSE k \in Due : \A j \in Due : k <= j

Without(seq, k) == SubSeq(seq, 1, k - 1) \o SubSeq(seq, k + 1, Len(seq))

Advance(x) == IF x + StaggerStep > MaxElapsed THEN MaxElapsed ELSE x + StaggerStep

\* ------------------------------------------------------------------- Init
Init ==
  /\ life = [i \in Screens |-> "unmounted"]
  /\ isBridgeReady = [i \in Screens |-> FALSE]
  /\ avatarLoaded = [i \in Screens |-> FALSE]
  /\ avatarError = [i \in Screens |-> Undefined]
  /\ needsRender = [i \in Screens |-> FALSE]
  /\ shown = [i \in Screens |-> Blank]
  /\ age = [i \in Screens |-> 0]
  /\ saved = [i \in Screens |-> OrigConsole]
  /\ console = OrigConsole
  /\ gltf = NoAsset
  /\ avatarMounted = [i \in Screens |-> FALSE]
  /\ isLoaded = [i \in Screens |-> FALSE]
  /\ lastDeps = [i \in Screens |-> NoDeps]
  /\ sinceLoaded = [i \in Screens |-> -1]
  /\ timers = <<>>
  /\ bridgeCalls = [i \in Screens |-> <<>>]
  /\ loadCalls = [i \in Screens |-> <<>>]
  /\ plays = [i \in Screens |-> <<>>]
  /\ playErrors = [i \in Screens |-> 0]

\* ---------------------------------------------------------------- actions
\* AvatarScreen.tsx 134-138: what the log-filter effect's cleanup restores
Restored(i) == saved[i]

\* AvatarScreen.tsx 113-132: the wrappers the log-filter effect installs
Installed(i) == [log |-> i, warn |-> i, error |-> i]

\* AvatarScreen.tsx 42-139: mount, first render and the effects of the first commit
Mount(i) ==
  /\ life[i] = "unmounted"
  /\ life' = [life EXCEPT ![i] = "mounted"]
  /\ shown' = [shown EXCEPT ![i] =
                 View(isBridgeReady[i], avatarLoaded[i], avatarError[i], gltf)]
  /\ timers' = Append(timers, BridgeTimer(i))
  /\ saved' = [saved EXCEPT ![i] = console]
  /\ console' = Installed(i)
  /\ UNCHANGED <<isBridgeReady, avatarLoaded, avatarError, needsRender, age, gltf,
                 avatarMounted, isLoaded, lastDeps, sinceLoaded, bridgeCalls,
                 loadCalls, plays, playErrors>>

\* unmount: the only effect cleanup is the log filter's (AvatarScreen.tsx 134-138);
\* no timer is cleared
Unmount(i) ==
  /\ life[i] = "mounted"
  /\ life' = [life EXCEPT ![i] = "torn"]
  /\ console' = Restored(i)
  /\ shown' = [shown EXCEPT ![i] = Blank]
  /\ avatarMounted' = [avatarMounted EXCEPT ![i] = FALSE]
  /\ needsRender' = [needsRender EXCEPT ![i] = FALSE]
  /\ UNCHANGED <<isBridgeReady, avatarLoaded, avatarError, age, saved, gltf,
                 isLoaded, lastDeps, sinceLoaded, timers, bridgeCalls, loadCalls,
                 plays, playErrors>>

\* AvatarScreen.tsx 55-58: the bridge timer's callback; React drops a state
\* update of a component that is no longer mounted
BridgeSets(i) == life[i] = "mounted"

BridgeTimerFire(i) ==
  /\ Due # {}
  /\ timers[FirstDue].kind = "bridge" /\ timers[FirstDue].owner = i
  /\ timers' = Without(timers, FirstDue)
  /\ bridgeCalls' = [bridgeCalls EXCEPT ![i] =
                       Append(@, [at |-> age[i], live |-> life[i] = "mounted"])]
  /\ isBridgeReady' = [isBridgeReady EXCEPT ![i] = @ \/ BridgeSets(i)]
  /\ needsRender' = [needsRender EXCEPT ![i] = @ \/ (BridgeSets(i) /\ ~isBridgeReady[i])]
  /\ UNCHANGED <<life, avatarLoaded, avatarError, shown, age, saved, console, gltf,
                 avatarMounted, isLoaded, lastDeps, sinceLoaded, loadCalls, plays, playErrors>>

\* Avatar3D.tsx 47-54: a stagger timer's callback; play() may throw, which is
\* caught and logged
ClipTimerFire(i, threw) ==
  /\ Due # {}
  /\ timers[FirstDue].kind = "clip" /\ timers[FirstDue].owner = i
  /\ timers' = Without(timers, FirstDue)
  /\ plays' = [plays EXCEPT ![i] =
                 Append(@, [clip |-> timers[FirstDue].clip, since |-> sinceLoaded[i],
                            live |-> avatarMounted[i]])]
  /\ playErrors' = [playErrors EXCEPT ![i] = IF threw THEN @ + 1 ELSE @]
  /\ UNCHANGED <<life, isBridgeReady, avatarLoaded, avatarError, needsRender, shown,
                 age, saved, console, gltf, avatarMounted, isLoaded, lastDeps,
                 sinceLoaded, bridgeCalls, loadCalls>>

\* AvatarScreen.tsx 142-149: handleAvatarLoadStateChange applied to the calls of
\* one effect run, in order
RECURSIVE Handle(_, _)
Handle(st, calls) ==
  IF calls = <<>> THEN st
  ELSE Handle([loaded |-> Head(calls).isLoaded, error |-> Head(calls).error],
              Tail(calls))

\* one React commit of screen i: AvatarScreen.tsx 151-298 rendered with the
\* current state, Avatar3D.tsx 10-98 rendered inside the canvas, then the
\* effects of Avatar3D whose dependencies changed
Render(i) ==
  /\ life[i] = "mounted"
  /\ needsRender[i]
  /\ LET canvas == CanvasShown(isBridgeReady[i])
         fresh == canvas /\ ~avatarMounted[i]
         l == IF fresh THEN FALSE ELSE isLoaded[i]
         prev == lastDeps[i]
         calls == IF canvas /\ NotifyRuns(fresh, prev, gltf, l)
                  THEN NotifyCalls(gltf, l) ELSE <<>>
         sets == canvas /\ NotifyRuns(fresh, prev, gltf, l) /\ NotifySetsLoaded(gltf, l)
         started == IF canvas /\ StartRuns(fresh, prev, gltf, l)
                    THEN StartTimers(i, gltf, l) ELSE <<>>
         st == Handle([loaded |-> avatarLoaded[i], error |-> avatarError[i]], calls)
     IN /\ shown' = [shown EXCEPT ![i] =
                       View(isBridgeReady[i], avatarLoaded[i], avatarError[i], gltf)]
        /\ avatarMounted' = [avatarMounted EXCEPT ![i] = canvas]
        /\ isLoaded' = [isLoaded EXCEPT ![i] = l \/ sets]
        /\ lastDeps' = [lastDeps EXCEPT ![i] =
                          IF canvas THEN [g |-> gltf, l |-> l] ELSE @]
        /\ loadCalls' = [loadCalls EXCEPT ![i] = @ \o calls]
        /\ avatarLoaded' = [avatarLoaded EXCEPT ![i] = st.loaded]
        /\ avatarError' = [avatarError EXCEPT ![i] = st.error]
        /\ sinceLoaded' = [sinceLoaded EXCEPT ![i] = IF sets /\ @ < 0 THEN 0 ELSE @]
        /\ timers' = timers \o started
        /\ needsRender' = [needsRender EXCEPT ![i] =
                             sets \/ st.loaded # avatarLoaded[i]
                                  \/ st.error # avatarError[i]]
  /\ UNCHANGED <<life, isBridgeReady, age, saved, console, gltf, bridgeCalls, plays, playErrors>>

\* the rendering library: the asset becomes available, or useGLTF returns it
\* under a new identity; the components that use it render again
AssetChange ==
  /\ gltf < MaxGltfVersion
  /\ gltf' = gltf + 1
  /\ needsRender' = [i \in Screens |-> needsRender[i] \/ avatarMounted[i]]
  /\ UNCHANGED <<life, isBridgeReady, avatarLoaded, avatarError, shown, age, saved,
                 console, avatarMounted, isLoaded, lastDeps, sinceLoaded, timers,
                 bridgeCalls, loadCalls, plays, playErrors>>

\* StaggerStep ms pass: no callback is due and no commit is pending
Tick ==
  /\ Due = {}
  /\ \A i \in Screens : ~needsRender[i]
  /\ \E i \in Screens : life[i] # "unmounted"
  /\ timers' = [k \in 1..Len(timers) |->
                  [timers[k] EXCEPT !.left = @ - StaggerStep]]
  /\ age' = [i \in Screens |-> IF life[i] = "unmounted" THEN age[i] ELSE Advance(age[i])]
  /\ sinceLoaded' = [i \in Screens |->
                       IF sinceLoaded[i] < 0 THEN sinceLoaded[i]
                       ELSE Advance(sinceLoaded[i])]
  /\ UNCHANGED <<life, isBridgeReady, avatarLoaded, avatarError, needsRender, shown,
                 saved, console, gltf, avatarMounted, isLoaded, lastDeps, bridgeCalls,
                 loadCalls, plays, playErrors>>

\* App.tsx 12-19: the application mounts one AvatarScreen
App == 1

Next ==
  \/ Mount(App)
  \/ Unmount(App)
  \/ BridgeTimerFire(App)
  \/ \E threw \in BOOLEAN : ClipTimerFire(App, threw)
  \/ Render(App)
  \/ AssetChange
  \/ Tick

\* a host that mounts several AvatarScreen instances, before any asset is
\* available: the instances share the console and the event loop
NextHost ==
  \/ \E i \in Screens : Mount(i)
  \/ \E i \in Screens : Unmount(i)
  \/ \E i \in Screens : BridgeTimerFire(i)
  \/ \E i \in Screens : Render(i)
  \/ Tick

Spec == Init /\ [][Next]_vars

\* the event loop runs a due timer callback and a pending commit, and time
\* passes; mounts, unmounts and the asset's arrival are the environment's
FairSpec ==
  /\ Init /\ [][Next]_vars
  /\ WF_vars(BridgeTimerFire(App))
  /\ WF_vars(\E threw \in BOOLEAN : ClipTimerFire(App, threw))
  /\ WF_vars(Render(App))
  /\ WF_vars(Tick)

SpecHost == Init /\ [][NextHost]_vars

\* -------------------------------------------- the view as a pure function
\* AvatarScreen.tsx 43-45: the three state setters, called with any values
SetFlags(i, b, l, e) ==
  /\ life[i] = "mounted"
  /\ <<b, l, e>> # <<isBridgeReady[i], avatarLoaded[i], avatarError[i]>>
  /\ isBridgeReady' = [isBridgeReady EXCEPT ![i] = b]
  /\ avatarLoaded' = [avatarLoaded EXCEPT ![i] = l]
  /\ avatarError' = [avatarError EXCEPT ![i] = e]
  /\ needsRender' = [needsRender EXCEPT ![i] = TRUE]
  /\ UNCHANGED <<life, shown, age, saved, console, gltf, avatarMounted, isLoaded,
                 lastDeps, sinceLoaded, timers, bridgeCalls, loadCalls, plays, playErrors>>

\* the screen of the application mounted and rendered, in any combination of
\* the three flags
InitFlags ==
  /\ life = [i \in Screens |-> IF i = App THEN "mounted" ELSE "unmounted"]
  /\ isBridgeReady \in [Screens -> BOOLEAN]
  /\ avatarLoaded \in [Screens -> BOOLEAN]
  /\ avatarError \in [Screens -> ErrorValues]
  /\ \A i \in Screens \ {App} :
       ~isBridgeReady[i] /\ ~avatarLoaded[i] /\ avatarError[i] = Undefined
  /\ needsRender = [i \in Screens |-> FALSE]
  /\ gltf = NoAsset
  /\ shown = [i \in Screens |->
                IF i = App
                THEN View(isBridgeReady[i], avatarLoaded[i], avatarError[i], gltf)
                ELSE Blank]
  /\ age = [i \in Screens |-> 0]
  /\ saved = [i \in Screens |-> OrigConsole]
  /\ console = Installed(App)
  /\ avatarMounted = [i \in Screens |-> CanvasShown(isBridgeReady[i])]
  /\ isLoaded = [i \in Screens |-> FALSE]
  /\ lastDeps = [i \in Screens |->
                   IF avatarMounted[i] THEN [g |-> NoAsset, l |-> FALSE] ELSE NoDeps]
  /\ sinceLoaded = [i \in Screens |-> -1]
  /\ timers = <<>>
  /\ bridgeCalls = [i \in Screens |-> <<>>]
  /\ loadCalls = [i \in Screens |-> <<>>]
  /\ plays = [i \in Screens |-> <<>>]
  /\ playErrors = [i \in Screens |-> 0]

NextFlags ==
  \/ \E b, l \in BOOLEAN : \E e \in ErrorValues : SetFlags(App, b, l, e)
  \/ Render(App)

SpecFlags == InitFlags /\ [][NextFlags]_vars

\* ------------------------------------------------------------------ claims
Rendered(i) == life[i] = "mounted" /\ ~needsRender[i]

\* C1: the status text and the indicator colour of a rendered screen are
\* decided by (bridgeReady, loaded, error) alone, error first, then
\* not-bridgeReady, then not-loaded, then ready; exactly one of the four
\* displayed states holds.  "error set" is the code's test: a defined,
\* non-empty string.
C1_StatusByPrecedence ==
  \A i \in Screens :
    Rendered(i) =>
      LET b == isBridgeReady[i]
          l == avatarLoaded[i]
          e == Truthy(avatarError[i])
          s == <<shown[i].text, shown[i].colour>>
      IN /\ e => s = <<"Failed to load model", "#f44336">>
         /\ (~e /\ ~b) => s = <<"Initializing...", "#888888">>
         /\ (~e /\ b /\ ~l) => s = <<"Loading Model...", "#ff9800">>
         /\ (~e /\ b /\ l) => s = <<"Ready", "#4CAF50">>
         /\ Cardinality({t \in {"Failed to load model", "Initializing...",
                                "Loading Model...", "Ready"} :
                           shown[i].text = t}) = 1

\* C1 witness: an error shown over bridgeReady = false and loaded = true, after
\* the flags were set and rendered
C1_Witness ==
  \E i \in Screens :
    /\ Rendered(i) /\ Truthy(avatarError[i]) /\ ~isBridgeReady[i] /\ avatarLoaded[i]
    /\ shown[i].text = "Failed to load model"
    /\ shown[i].colour = "#f44336"

\* C2: the bridge timer's callback runs at most once per mount, no earlier than
\* 1000 ms after the mount, and never after the screen was torn down.
C2_BridgeOnceLateAndLive ==
  \A i \in Screens :
    /\ Len(bridgeCalls[i]) <= 1
    /\ \A k \in 1..Len(bridgeCalls[i]) :
         bridgeCalls[i][k].at >= BridgeDelay /\ bridgeCalls[i][k].live

TrueCalls(i) == {k \in 1..Len(loadCalls[i]) : loadCalls[i][k].isLoaded}

\* C3: for one mount of Avatar3D, onLoadStateChange is invoked with
\* isLoaded = true at most once, whatever commits follow the first one that saw
\* the asset.
C3_NotifyAtMostOnce ==
  \A i \in Screens : Cardinality(TrueCalls(i)) <= 1

\* C3 witness: the callback was invoked once, and the effects ran again on a
\* later commit that saw the asset under a new identity (the clips were
\* scheduled a second time)
C3_Witness ==
  /\ Cardinality(TrueCalls(App)) = 1
  /\ lastDeps[App] = [g |-> MaxGltfVersion, l |-> TRUE]
  /\ Len(plays[App]) > NumClips

\* C4: whenever no AvatarScreen is mounted, console.log, console.warn and
\* console.error are the functions that were in place before the first mount.
C4_ConsoleRestored ==
  (\A i \in Screens : life[i] # "mounted") => console = OrigConsole

PlaysOf(i, c) == {k \in 1..Len(plays[i]) : plays[i][k].clip = c}

\* C5: every clip is played at most once, clip c (at 0-based position c - 1) no
\* earlier than (c - 1) x 100 ms after the loaded transition, and the clips are
\* played in enumeration order.
C5_ClipsOnceInOrder ==
  \A i \in Screens :
    /\ \A c \in Clips : Cardinality(PlaysOf(i, c)) <= 1
    /\ \A k \in 1..Len(plays[i]) :
         plays[i][k].since >= (plays[i][k].clip - 1) * StaggerStep
    /\ \A j, k \in 1..Len(plays[i]) : j < k => plays[i][j].clip <= plays[i][k].clip

Rank(text) ==
  IF text \in {"Ready", "Failed to load model"} THEN 2
  ELSE IF text = "Loading Model..." THEN 1 ELSE 0

\* C6: during a screen's lifetime no step resets bridgeReady, loaded or error,
\* the displayed state never moves back (Ready and Error are terminal), loaded
\* and error change only in a step that invokes the load-state callback, and
\* bridgeReady only in the bridge timer's callback.
C6_ForwardOnly ==
  [][\A i \in Screens :
       /\ isBridgeReady[i] => isBridgeReady'[i]
       /\ avatarLoaded[i] => avatarLoaded'[i]
       /\ Truthy(avatarError[i]) => Truthy(avatarError'[i])
       /\ life'[i] = "mounted" =>
            /\ Rank(shown'[i].text) >= Rank(shown[i].text)
            /\ Rank(shown[i].text) = 2 => shown'[i].text = shown[i].text
       /\ <<avatarLoaded[i], avatarError[i]>> # <<avatarLoaded'[i], avatarError'[i]>>
            => Len(loadCalls'[i]) = Len(loadCalls[i]) + 1
       /\ isBridgeReady[i] # isBridgeReady'[i]
            => Len(bridgeCalls'[i]) = Len(bridgeCalls[i]) + 1]_vars

\* C6 witness: Ready is displayed and later steps have run: the asset was
\* renewed, the screen rendered again and stagger timers fired
C6_Witness ==
  /\ Rendered(App) /\ shown[App].text = "Ready"
  /\ lastDeps[App] = [g |-> MaxGltfVersion, l |-> TRUE]
  /\ Len(plays[App]) > NumClips
  /\ Len(loadCalls[App]) = 1 /\ Len(bridgeCalls[App]) = 1

AllPlayedBy(i, limit) ==
  \A c \in Clips : \E k \in PlaysOf(i, c) : plays[i][k].since <= limit

\* C7: (a) a screen rendered after the bridge-ready transition, with no asset
\* available, shows LoadingModel; (b) once the asset is available to a mounted
\* screen, the screen eventually shows Ready with every clip played (or is
\* unmounted), and a screen still mounted NumClips x 100 ms after the loaded
\* transition has played every clip within that time.
C7_Scenarios ==
  /\ [](Rendered(App) /\ isBridgeReady[App] /\ gltf = NoAsset
          => /\ shown[App].text = "Loading Model..."
             /\ bridgeCalls[App] # <<>> /\ bridgeCalls[App][1].at >= BridgeDelay)
  /\ [](life[App] = "mounted" /\ sinceLoaded[App] >= NumClips * StaggerStep
          => AllPlayedBy(App, NumClips * StaggerStep))
  /\ ((life[App] = "mounted" /\ gltf # NoAsset)
        ~> (life[App] = "torn"
              \/ (shown[App].text = "Ready" /\ AllPlayedBy(App, NumClips * StaggerStep))))

\* C7 witness: the asset became available after the bridge-ready transition,
\* Ready is shown and every clip was played once, the last one 200 ms after the
\* loaded transition
C7_Witness ==
  /\ Rendered(App) /\ shown[App].text = "Ready"
  /\ bridgeCalls[App] # <<>> /\ age[App] > BridgeDelay
  /\ sinceLoaded[App] >= 0 /\ age[App] - sinceLoaded[App] > BridgeDelay
  /\ Len(plays[App]) = NumClips
  /\ AllPlayedBy(App, (NumClips - 1) * StaggerStep)

\* C8: the error flag is never set, so neither the Error status nor the error
\* overlay is ever displayed; without an asset Avatar3D renders null and the
\* screen stays not loaded; a stagger timer's callback, whether play() throws
\* or not, leaves bridgeReady, loaded and error as they are.
C8_NoErrorPath ==
  /\ [](\A i \in Screens :
          /\ avatarError[i] = Undefined
          /\ shown[i].text # "Failed to load model" /\ ~shown[i].error
          /\ gltf = NoAsset => ~isLoaded[i] /\ ~avatarLoaded[i] /\ loadCalls[i] = <<>>
          /\ (gltf = NoAsset /\ Rendered(i) /\ avatarMounted[i])
               => shown[i].avatar = "null")
  /\ [][\A i \in Screens :
          plays'[i] # plays[i] =>
            <<isBridgeReady'[i], avatarLoaded'[i], avatarError'[i]>>
              = <<isBridgeReady[i], avatarLoaded[i], avatarError[i]>>]_vars

\* C8 witness: Avatar3D rendered null for a while, the asset then loaded, and a
\* clip's play() threw
C8_Witness ==
  /\ Rendered(App) /\ avatarLoaded[App]
  /\ age[App] - sinceLoaded[App] > BridgeDelay
  /\ playErrors[App] > 0

\* C9: no stagger timer's callback calls play() after Avatar3D was torn down.
C9_NoPlayAfterTeardown ==
  \A i \in Screens : \A k \in 1..Len(plays[i]) : plays[i][k].live

\* C10: loaded implies bridgeReady: Avatar3D is in the tree, and the load-state
\* callback invoked, only once bridgeReady is true; and a rendered screen shows
\* the loading overlay exactly when bridgeReady is true, loaded is false and
\* error is unset.
C10_LoadedImpliesBridgeReady ==
  \A i \in Screens :
    /\ avatarLoaded[i] => isBridgeReady[i]
    /\ avatarMounted[i] => isBridgeReady[i]
    /\ loadCalls[i] # <<>> => isBridgeReady[i]
    /\ Rendered(i) =>
         (shown[i].loading
            <=> (isBridgeReady[i] /\ ~avatarLoaded[i] /\ ~Truthy(avatarError[i])))

\* C10 witness: the asset was available before the bridge-ready transition, the
\* callback was invoked after it, and the loading overlay is gone
C10_Witness ==
  /\ Rendered(App) /\ avatarLoaded[App] /\ isBridgeReady[App]
  /\ ~shown[App].loading
  /\ age[App] - sinceLoaded[App] = BridgeDelay

====
